---- MODULE Spec2Model ----
(***************************************************************************)
(* SF Position sync: paginated fetch with retry, department filter, field  *)
(* mapping and dual-dialect SQL generation.                                *)
(*                                                                         *)
(* Text is modelled as a sequence of one-character strings, so quoting,    *)
(* escaping and pattern matching are computed and not assumed.             *)
(***************************************************************************)
EXTENDS Integers, Sequences, FiniteSets, TLC

(***************************************************************************)
(* Generic helpers                                                         *)
(***************************************************************************)
Range(f) == {f[i] : i \in DOMAIN f}

RECURSIVE Concat(_)
Concat(ss) == IF ss = <<>> THEN <<>> ELSE Head(ss) \o Concat(Tail(ss))

Digits == <<"0", "1", "2", "3", "4", "5", "6", "7", "8", "9">>

IsDigit(c) == \E i \in 1..10 : Digits[i] = c

DigitVal(c) == (CHOOSE i \in 1..10 : Digits[i] = c) - 1

\* decimal text of a natural number, left-padded with zeros to width w
RECURSIVE NatText(_)
NatText(n) == IF n < 10 THEN <<Digits[n + 1]>>
              ELSE NatText(n \div 10) \o <<Digits[(n % 10) + 1]>>

RECURSIVE Pad(_, _)
Pad(txt, w) == IF Len(txt) >= w THEN txt ELSE Pad(<<"0">> \o txt, w)

\* value of a digit sequence that fits the integers of the checker
RECURSIVE DigitsNat(_)
DigitsNat(ds) == IF ds = <<>> THEN 0
                 ELSE 10 * DigitsNat(SubSeq(ds, 1, Len(ds) - 1)) + DigitVal(ds[Len(ds)])

(***************************************************************************)
(* JavaScript values: null, undefined, strings and numbers                 *)
(***************************************************************************)
Null == [t |-> "null", s |-> <<>>, n |-> 0]

Undefined == [t |-> "undefined", s |-> <<>>, n |-> 0]

Str(txt) == [t |-> "string", s |-> txt, n |-> 0]

Num(k) == [t |-> "number", s |-> <<>>, n |-> k]

IsNullish(v) == v.t \in {"null", "undefined"}

\* !v
Falsy(v) == \/ IsNullish(v)
            \/ v.t = "string" /\ v.s = <<>>
            \/ v.t = "number" /\ v.n = 0

\* String(v), also what a template literal `${v}` yields
JsString(v) == CASE v.t = "null" -> <<"n", "u", "l", "l">>
                 [] v.t = "undefined" -> <<"u", "n", "d", "e", "f", "i", "n", "e", "d">>
                 [] v.t = "string" -> v.s
                 [] v.t = "number" -> IF v.n < 0 THEN <<"-">> \o NatText(0 - v.n)
                                      ELSE NatText(v.n)

(***************************************************************************)
(* Text helpers                                                            *)
(***************************************************************************)
\* String.prototype.replace(c, r) with a one-character string pattern:
\* only the first occurrence is replaced
RECURSIVE ReplaceFirst(_, _, _)
ReplaceFirst(txt, c, r) ==
    IF txt = <<>> THEN <<>>
    ELSE IF Head(txt) = c THEN r \o Tail(txt)
    ELSE <<Head(txt)>> \o ReplaceFirst(Tail(txt), c, r)

\* String.prototype.replace(/c/g, r): every occurrence is replaced
RECURSIVE ReplaceAll(_, _, _)
ReplaceAll(txt, c, r) ==
    IF txt = <<>> THEN <<>>
    ELSE (IF Head(txt) = c THEN r ELSE <<Head(txt)>>) \o ReplaceAll(Tail(txt), c, r)

StartsWith(txt, prefix) ==
    /\ Len(prefix) <= Len(txt)
    /\ SubSeq(txt, 1, Len(prefix)) = prefix

AllDigits(txt) == \A i \in 1..Len(txt) : IsDigit(txt[i])

(***************************************************************************)
(* ECMAScript time values.  A time value is kept as whole days since the   *)
(* epoch plus milliseconds within the day, days * DayMs + ms, so that the  *)
(* whole representable range of Date can be computed with.                 *)
(***************************************************************************)
DayMs == 24 * 60 * 60 * 1000

\* Date holds at most 8.64e15 ms on either side of the epoch: 1e8 days
MaxDays == 10000 * 10000

DayCap == 2 * MaxDays

Min(a, b) == IF a < b THEN a ELSE b

\* long division of a decimal digit sequence by DayMs; the quotient
\* saturates at DayCap, which is already outside the range of Date
RECURSIVE DivDay(_, _, _)
DivDay(ds, q, r) ==
    IF ds = <<>> THEN [days |-> q, ms |-> r]
    ELSE DivDay(Tail(ds),
                Min(q * 10 + ((r * 10 + DigitVal(Head(ds))) \div DayMs), DayCap),
                (r * 10 + DigitVal(Head(ds))) % DayMs)

\* parseInt(txt, 10) of an optionally negative digit sequence, as a time value
Negated(p) ==
    IF p.ms = 0 THEN [days |-> 0 - p.days, ms |-> 0]
    ELSE [days |-> 0 - p.days - 1, ms |-> DayMs - p.ms]

ParseIntTime(txt) ==
    IF Head(txt) = "-" THEN Negated(DivDay(Tail(txt), 0, 0)) ELSE DivDay(txt, 0, 0)

\* new Date(t) is a valid date exactly when t is inside the range (TimeClip)
ValidTime(tv) ==
    \/ tv.days >= 0 - MaxDays /\ tv.days < MaxDays
    \/ tv.days = MaxDays /\ tv.ms = 0

\* proleptic Gregorian calendar date of a day number, computed in steps:
\* the 400-year era, the day, year and month within it (the year from March)
CivilOfMonth(era, yoe, d, m) ==
    [y |-> yoe + era * 400 + (IF m <= 2 THEN 1 ELSE 0), m |-> m, d |-> d]

CivilOfMp(era, yoe, doy, mp) ==
    CivilOfMonth(era, yoe, doy - ((153 * mp + 2) \div 5) + 1,
                 IF mp < 10 THEN mp + 3 ELSE mp - 9)

CivilOfDoy(era, yoe, doy) == CivilOfMp(era, yoe, doy, (5 * doy + 2) \div 153)

CivilOfYoe(era, doe, yoe) ==
    CivilOfDoy(era, yoe, doe - (365 * yoe + (yoe \div 4) - (yoe \div 100)))

CivilOfDoe(era, doe) ==
    CivilOfYoe(era, doe,
               (doe - (doe \div 1460) + (doe \div 36524) - (doe \div 146096)) \div 365)

CivilOfEra(z, era) == CivilOfDoe(era, z - era * 146097)

CivilFromDays(days) == CivilOfEra(days + 719468, (days + 719468) \div 146097)

\* day number of a calendar date; a day past the end of the month runs on
\* into the next month (MakeDay)
DaysOfYoe(era, yoe, doy) ==
    era * 146097 + (yoe * 365 + (yoe \div 4) - (yoe \div 100) + doy) - 719468

DaysOfYear(y2, mp, d) ==
    DaysOfYoe(y2 \div 400, y2 - (y2 \div 400) * 400, ((153 * mp + 2) \div 5) + d - 1)

DaysFromCivil(y, m, d) ==
    DaysOfYear(IF m <= 2 THEN y - 1 ELSE y, IF m > 2 THEN m - 3 ELSE m + 9, d)

Abs(n) == IF n < 0 THEN 0 - n ELSE n

YearText(y) ==
    (IF y >= 0 /\ y <= 9999 THEN <<>> ELSE IF y < 0 THEN <<"-">> ELSE <<"+">>)
    \o Pad(NatText(Abs(y)), IF y >= 0 /\ y <= 9999 THEN 4 ELSE 6)

\* Date.prototype.toISOString of a valid time value
PadNat(n, w) == Pad(NatText(n), w)

IsoText(c, ms) ==
    Concat(<<YearText(c.y), <<"-">>, PadNat(c.m, 2), <<"-">>, PadNat(c.d, 2), <<"T">>,
             PadNat(ms \div 3600000, 2), <<":">>, PadNat((ms \div 60000) % 60, 2), <<":">>,
             PadNat((ms \div 1000) % 60, 2), <<".">>, PadNat(ms % 1000, 3), <<"Z">>>>)

toISOString(tv) == IsoText(CivilFromDays(tv.days), tv.ms)

\* the shape \d{4}-\d{2}-\d{2}
IsDateShape(txt) ==
    /\ Len(txt) = 10
    /\ AllDigits(SubSeq(txt, 1, 4)) /\ txt[5] = "-"
    /\ AllDigits(SubSeq(txt, 6, 7)) /\ txt[8] = "-"
    /\ AllDigits(SubSeq(txt, 9, 10))

\* the shape T\d{2}:\d{2}:\d{2}
IsTimeShape(txt) ==
    /\ Len(txt) = 9
    /\ txt[1] = "T" /\ AllDigits(SubSeq(txt, 2, 3)) /\ txt[4] = ":"
    /\ AllDigits(SubSeq(txt, 5, 6)) /\ txt[7] = ":"
    /\ AllDigits(SubSeq(txt, 8, 9))

\* the engine's date parser accepts months 1..12 and days 1..31 in any month
DateFieldsOk(txt) ==
    /\ DigitsNat(SubSeq(txt, 6, 7)) \in 1..12
    /\ DigitsNat(SubSeq(txt, 9, 10)) \in 1..31

\* and hours 0..23, minutes and seconds 0..59, or exactly 24:00:00
ClockOk(hh, mi, ss) ==
    \/ hh <= 23 /\ mi <= 59 /\ ss <= 59
    \/ hh = 24 /\ mi = 0 /\ ss = 0

TimeFieldsOk(txt) ==
    ClockOk(DigitsNat(SubSeq(txt, 2, 3)), DigitsNat(SubSeq(txt, 5, 6)),
            DigitsNat(SubSeq(txt, 8, 9)))

\* Date.parse(txt) is a number: modelled for date-only ISO text and for text
\* without any digit (never a date); the inputs are drawn from those
DateParses(txt) == IsDateShape(txt) /\ DateFieldsOk(txt)

\* the time value of Date.parse(txt) for date-only ISO text (UTC midnight)
DateParse(txt) ==
    [days |-> DaysFromCivil(DigitsNat(SubSeq(txt, 1, 4)), DigitsNat(SubSeq(txt, 6, 7)),
                            DigitsNat(SubSeq(txt, 9, 10))),
     ms |-> 0]

(***************************************************************************)
(* Configuration (config/index.js)                                         *)
(***************************************************************************)
retryAttempts == 3

retryDelay == 1000

\* JSON field to DB column mapping, in the iteration order of the object
fieldMapping ==
    << <<"code", "code">>,
       <<"effectiveStartDate", "effective_start_date">>,
       <<"cust_subCode", "cust_sub_code">>,
       <<"cust_subDepartment", "cust_sub_department">>,
       <<"lastModifiedDateTime", "last_modified_date_time">>,
       <<"jobCode", "job_code">>,
       <<"jobTitle", "job_title">>,
       <<"payRange", "pay_range">>,
       <<"cust_subDepartment2", "cust_sub_department2">>,
       <<"costCenter", "cost_center">>,
       <<"externalName_localized", "external_name_localized">>,
       <<"effectiveStatus", "effective_status">>,
       <<"externalName_vi_VN", "external_name_vi">>,
       <<"effectiveEndDate", "effective_end_date">>,
       <<"payGrade", "pay_grade">>,
       <<"cust_compensationpackage", "Compensation_Package">>,
       <<"department", "department">>,
       <<"cust_max", "cust_max">>,
       <<"jobLevel", "job_level">>,
       <<"cust_min", "cust_min">>,
       <<"externalName_en_US", "externalName_en">> >>

\* Object.keys(config.fieldMapping).map((k) => config.fieldMapping[k])
MappedColumns == [i \in 1..Len(fieldMapping) |-> fieldMapping[i][2]]

(***************************************************************************)
(* Exceptions: a call either returns a value or throws                     *)
(***************************************************************************)
Returns(x) == [ok |-> TRUE, val |-> x]

Throws == [ok |-> FALSE, val |-> Null]

(***************************************************************************)
(* utils/sqlGenerator.js                                                   *)
(***************************************************************************)
DatePrefix == <<"/", "D", "a", "t", "e", "(">>

\* end of the longest run of digits that starts at position k (k - 1: none)
RunEnd(txt, k) ==
    CHOOSE e \in (k - 1)..Len(txt) :
        /\ AllDigits(SubSeq(txt, k, e))
        /\ e = Len(txt) \/ ~IsDigit(txt[e + 1])

ClosesAt(txt, k) == k + 1 <= Len(txt) /\ txt[k] = ")" /\ txt[k + 1] = "/"

\* ([+-]\d+)?\)\/ matches at position k
OffsetCloses(txt, k) ==
    \/ ClosesAt(txt, k)
    \/ /\ k <= Len(txt)
       /\ txt[k] \in {"+", "-"}
       /\ RunEnd(txt, k + 1) >= k + 1
       /\ ClosesAt(txt, RunEnd(txt, k + 1) + 1)

\* \d+([+-]\d+)?\)\/ matches at position k
NumberCloses(txt, k) ==
    /\ k <= Len(txt) + 1
    /\ RunEnd(txt, k) >= k
    /\ OffsetCloses(txt, RunEnd(txt, k) + 1)

\* where the digits of group 1 start when the match starts at i
DigitsStart(txt, i) == IF i + 6 <= Len(txt) /\ txt[i + 6] = "-" THEN i + 7 ELSE i + 6

\* /\/Date\((-?\d+)([+-]\d+)?\)\// matches with the match starting at i
MatchesAt(txt, i) ==
    /\ i + 5 <= Len(txt)
    /\ SubSeq(txt, i, i + 5) = DatePrefix
    /\ NumberCloses(txt, DigitsStart(txt, i))

\* variant: the sign is left out of group 1
Group1Unsigned(txt, i) == SubSeq(txt, DigitsStart(txt, i), RunEnd(txt, DigitsStart(txt, i)))

\* match[1] of the match starting at i
Group1(txt, i) == SubSeq(txt, i + 6, RunEnd(txt, DigitsStart(txt, i)))

HasMatch(txt) == \E i \in 1..Len(txt) : MatchesAt(txt, i)

FirstMatch(txt) ==
    CHOOSE i \in 1..Len(txt) :
        MatchesAt(txt, i) /\ \A j \in 1..(i - 1) : ~MatchesAt(txt, j)

\* date.toISOString().replace("T", " ").replace("Z", "")
CanonicalTimestamp(tv) == ReplaceFirst(ReplaceFirst(toISOString(tv), "T", <<" ">>), "Z", <<>>)

\* a non-string truthy argument has no match method (TypeError); toISOString
\* of an invalid Date throws (RangeError)
DateToText(date) ==
    IF ValidTime(date) THEN Returns(Str(CanonicalTimestamp(date))) ELSE Throws

\* the time value both branches hand to new Date(...)
DateOf(txt) ==
    IF HasMatch(txt) THEN ParseIntTime(Group1(txt, FirstMatch(txt))) ELSE DateParse(txt)

parseSFDate(sfDate) ==
    IF Falsy(sfDate) THEN Returns(Null)
    ELSE IF sfDate.t # "string" THEN Throws
    ELSE IF HasMatch(sfDate.s) \/ DateParses(sfDate.s) THEN DateToText(DateOf(sfDate.s))
    ELSE Returns(Null)

\* variant: only the first quote is doubled
escapeSqlStringOnce(value) ==
    IF IsNullish(value) THEN Null
    ELSE Str(ReplaceFirst(JsString(value), "'", <<"'", "'">>))

escapeSqlString(value) ==
    IF IsNullish(value) THEN Null
    ELSE Str(ReplaceAll(JsString(value), "'", <<"'", "'">>))

NullLiteral == <<"N", "U", "L", "L">>

Quoted(txt) == <<"'">> \o txt \o <<"'">>

dateColumns == {"effective_start_date", "last_modified_date_time", "effective_end_date"}

TimestampFormat ==
    <<"Y", "Y", "Y", "Y", "-", "M", "M", "-", "D", "D", " ",
      "H", "H", "2", "4", ":", "M", "I", ":", "S", "S", ".", "F", "F", "3">>

\* the date branch, given what parseSFDate did
FormatDate(parsedDate, dbType) ==
    IF ~parsedDate.ok THEN Throws
    ELSE IF ~Falsy(parsedDate.val)
    THEN IF dbType = "oracle"
         THEN Returns(<<"T", "O", "_", "T", "I", "M", "E", "S", "T", "A", "M", "P", "(">>
                      \o Quoted(parsedDate.val.s) \o <<",", " ">>
                      \o Quoted(TimestampFormat) \o <<")">>)
         ELSE Returns(Quoted(parsedDate.val.s)
                      \o <<":", ":", "t", "i", "m", "e", "s", "t", "a", "m", "p">>)
    ELSE Returns(NullLiteral)

formatSqlValue(value, columnName, dbType) ==
    IF IsNullish(value) THEN Returns(NullLiteral)
    ELSE IF columnName \in dateColumns THEN FormatDate(parseSFDate(value), dbType)
    ELSE Returns(Quoted(JsString(escapeSqlString(value))))

\* apiRecord[apiField]
Field(apiRecord, apiField) ==
    IF apiField \in DOMAIN apiRecord THEN apiRecord[apiField] ELSE Undefined

\* the object built by the loop: a later pair for a column overwrites an
\* earlier one, so the last pair of the mapping that names the column counts
LastPair(dbColumn) ==
    CHOOSE j \in 1..Len(fieldMapping) :
        /\ fieldMapping[j][2] = dbColumn
        /\ \A k \in (j + 1)..Len(fieldMapping) : fieldMapping[k][2] # dbColumn

\* variant: v || null
OrNullIfFalsy(v) == IF Falsy(v) THEN Null ELSE v

\* v !== undefined ? v : null
OrNull(v) == IF v.t # "undefined" THEN v ELSE Null

transformRecord(apiRecord) ==
    [dbColumn \in Range(MappedColumns) |->
        OrNull(Field(apiRecord, fieldMapping[LastPair(dbColumn)][1]))]

\* columns.map((col) => formatSqlValue(dbRecord[col], col, dbType))
FormatAll(dbRecord, columns, dbType) ==
    [i \in 1..Len(columns) |-> formatSqlValue(dbRecord[columns[i]], columns[i], dbType)]

\* MERGE INTO job_sf_position target USING (SELECT <source> AS code FROM dual)
\* source ON (target.code = source.code) WHEN NOT MATCHED THEN
\* INSERT (<columns>) VALUES (<values>)
Statement(dbType, source, columns, values) ==
    IF \E i \in 1..Len(values) : ~values[i].ok THEN Throws
    ELSE Returns([dialect |-> dbType,
                  source |-> source,
                  columns |-> columns,
                  values |-> [i \in 1..Len(values) |-> values[i].val]])

OracleInsertOf(dbRecord, columns) ==
    Statement("oracle", Quoted(JsString(escapeSqlString(dbRecord["code"]))), columns,
              FormatAll(dbRecord, columns, "oracle"))

generateOracleInsert(record) == OracleInsertOf(transformRecord(record), MappedColumns)

\* variant: only the columns the record has a value for are listed
PostgresInsertOfPresent(dbRecord, columns) ==
    Statement("postgres", <<>>, SelectSeq(columns, LAMBDA col : ~IsNullish(dbRecord[col])),
              FormatAll(dbRecord, SelectSeq(columns, LAMBDA col : ~IsNullish(dbRecord[col])),
                        "postgres"))

\* INSERT INTO job_sf_position (<columns>) VALUES (<values>)
\* ON CONFLICT (code) DO NOTHING
PostgresInsertOf(dbRecord, columns) ==
    Statement("postgres", <<>>, columns, FormatAll(dbRecord, columns, "postgres"))

generatePostgresInsert(record) == PostgresInsertOf(transformRecord(record), MappedColumns)

generateInsertIfNotExists(record, dbType) ==
    IF dbType = "postgres" THEN generatePostgresInsert(record)
    ELSE generateOracleInsert(record)

\* generateSqlHeader: the comment block, as its variable parts
generateSqlHeader(startDate, endDate, dbType, generated, prefix) ==
    [generated |-> generated,
     dateRange |-> IF ~Falsy(startDate) \/ ~Falsy(endDate)
                   THEN <<IF Falsy(startDate) THEN <<"N", "/", "A">> ELSE JsString(startDate),
                          IF Falsy(endDate) THEN <<"N", "/", "A">> ELSE JsString(endDate)>>
                   ELSE <<"Yesterday">>,
     departmentFilter |-> prefix,
     database |-> IF dbType = "oracle" THEN "ORACLE" ELSE "POSTGRES"]

\* generateSqlFooter: the comment block, as its variable part
generateSqlFooter(totalRecords) == [totalRecords |-> totalRecords]

(***************************************************************************)
(* services/sfApiService.js                                                *)
(***************************************************************************)
\* the instant of the first clock reading: 2024-01-15T00:00:00.000Z
BaseDay == DaysFromCivil(2024, 1, 15)

\* new Date() when the clock reads t milliseconds
CurrentTime(t) == [days |-> BaseDay + (t \div DayMs), ms |-> t % DayMs]

\* toISOString().replace(/\.\d{3}Z$/, "") of the time one day before t
\* yesterday.setDate(yesterday.getDate() - 1)
DayBefore(date) == [days |-> date.days - 1, ms |-> date.ms]

\* replace(/\.\d{3}Z$/, "") of ISO text
WithoutMillis(iso) == SubSeq(iso, 1, Len(iso) - 5)

getYesterdayDateTime(t) == WithoutMillis(toISOString(DayBefore(CurrentTime(t))))

formatDate(dateStr) ==
    IF Falsy(dateStr) THEN Null
    ELSE IF Len(JsString(dateStr)) = 10
    THEN Str(JsString(dateStr) \o <<"T", "0", "0", ":", "0", "0", ":", "0", "0">>)
    ELSE dateStr

\* variant: the end date is left out when both dates are given
FilterOfLowerOnly(start, end, t) ==
    IF ~Falsy(start) THEN [ge |-> start, le |-> Null]
    ELSE IF ~Falsy(end) THEN [ge |-> Null, le |-> end]
    ELSE [ge |-> Str(getYesterdayDateTime(t)), le |-> Null]

\* the filter expression, as the bounds it puts on lastModifiedDateTime
\* (ge: at or after, le: at or before; Null: no such term)
FilterOf(start, end, t) ==
    IF ~Falsy(start) /\ ~Falsy(end) THEN [ge |-> start, le |-> end]
    ELSE IF ~Falsy(start) THEN [ge |-> start, le |-> Null]
    ELSE IF ~Falsy(end) THEN [ge |-> Null, le |-> end]
    ELSE [ge |-> Str(getYesterdayDateTime(t)), le |-> Null]

buildDateFilter(startDate, endDate, t) == FilterOf(formatDate(startDate), formatDate(endDate), t)

\* failures of a request: a transport error code without a response, or a
\* response with an error status
Errors ==
    {[code |-> c, status |-> 0] : c \in {"ECONNRESET", "ETIMEDOUT", "ECONNABORTED", "ENOTFOUND"}}
    \cup {[code |-> "ERR_BAD_RESPONSE", status |-> st] : st \in {500, 503}}
    \cup {[code |-> "ERR_BAD_REQUEST", status |-> st] : st \in {404, 499}}

\* variant: every error status counts as a server error
isRetryableAnyStatus(error) ==
    \/ error.code = "ECONNRESET"
    \/ error.code = "ETIMEDOUT"
    \/ error.code = "ECONNABORTED"
    \/ error.status # 0 /\ error.status >= 400

isRetryable(error) ==
    \/ error.code = "ECONNRESET"
    \/ error.code = "ETIMEDOUT"
    \/ error.code = "ECONNABORTED"
    \/ error.status # 0 /\ error.status >= 500

RECURSIVE Pow2(_)
Pow2(k) == IF k = 0 THEN 1 ELSE 2 * Pow2(k - 1)

\* variant: the exponent is the attempt number
BackoffDelayFromAttempt(n) == retryDelay * Pow2(n)

\* config.request.retryDelay * Math.pow(2, attempt - 1)
BackoffDelay(n) == retryDelay * Pow2(n - 1)

\* variant: the last attempt is retried as well
WillRetryOnceMore(error, n) == isRetryable(error) /\ n <= retryAttempts

\* the attempt is followed by a wait and another attempt
WillRetry(error, n) == isRetryable(error) /\ n < retryAttempts

\* the message of the error thrown after the loop
FetchErrorMessage(lastError) ==
    IF lastError.status # 0 THEN [kind |-> "API Error", status |-> lastError.status, code |-> ""]
    ELSE [kind |-> "Request Error", status |-> 0, code |-> lastError.code]

\* variant: a record without a department never matches
DepartmentMatchesPresent(pos, prefix) ==
    /\ ~Falsy(Field(pos, "department"))
    /\ StartsWith(Field(pos, "department").s, prefix)

\* (pos.department || "").startsWith(prefix), for string departments
DepartmentMatches(pos, prefix) ==
    StartsWith(IF Falsy(Field(pos, "department")) THEN <<>> ELSE Field(pos, "department").s,
               prefix)

RECURSIVE filterByDepartment(_, _)
filterByDepartment(positions, prefix) ==
    IF positions = <<>> THEN <<>>
    ELSE (IF DepartmentMatches(Head(positions), prefix) THEN <<Head(positions)>> ELSE <<>>)
         \o filterByDepartment(Tail(positions), prefix)

(***************************************************************************)
(* index.js: the trigger surface and the sync orchestrator                 *)
(***************************************************************************)
\* /^\d{4}-\d{2}-\d{2}(T\d{2}:\d{2}:\d{2})?$/.test(dateStr)
MatchesDateRegex(txt) ==
    \/ IsDateShape(txt)
    \/ /\ Len(txt) = 19
       /\ IsDateShape(SubSeq(txt, 1, 10))
       /\ IsTimeShape(SubSeq(txt, 11, 19))

\* !isNaN(new Date(dateStr).getTime()) for text of that shape
DateIsNumber(txt) ==
    /\ DateFieldsOk(SubSeq(txt, 1, 10))
    /\ Len(txt) = 19 => TimeFieldsOk(SubSeq(txt, 11, 19))

\* variant: the shape alone decides
isValidDateByShape(dateStr) == Falsy(dateStr) \/ MatchesDateRegex(JsString(dateStr))

isValidDate(dateStr) ==
    IF Falsy(dateStr) THEN TRUE
    ELSE IF ~MatchesDateRegex(JsString(dateStr)) THEN FALSE
    ELSE DateIsNumber(JsString(dateStr))

(***************************************************************************)
(* Bounds and inputs                                                       *)
(***************************************************************************)
MaxPageSize == 2

MaxPages == 3

MaxRuns == 2

MaxTicks == 2

\* one step of the clock: half a second
TickMs == 1000 \div 2

Runs == 1..MaxRuns

\* config.sync.departmentFilter
departmentFilter == <<"E">>

\* config.sync.outputFile, without the ".sql" that the timestamp replaces
outputStem == "output/positions"

DateText(y1, y2, y3, y4, m1, m2, d1, d2) == <<y1, y2, y3, y4, "-", m1, m2, "-", d1, d2>>

WrappedEpoch(ds) == DatePrefix \o ds \o <<")", "/">>

\* one digit past the largest time value of Date, 8640000000000000
PastMaxDate ==
    <<"8", "6", "4", "0", "0", "0", "0", "0", "0", "0", "0", "0", "0", "0", "0", "1">>

\* records the upstream may return
PosEng == ("code" :> Str(<<"A">>)) @@ ("department" :> Str(<<"E", "1">>))
          @@ ("effectiveStartDate" :> Str(WrappedEpoch(<<"1", "5", "0", "0">>)))
          @@ ("jobTitle" :> Str(<<"O", "'", "B">>)) @@ ("positionCriticality" :> Num(1))

PosOps == ("code" :> Str(<<"B">>)) @@ ("department" :> Str(<<"S", "1">>))
          @@ ("effectiveEndDate" :> Null)

PosFar == ("code" :> Str(<<"C">>)) @@ ("department" :> Str(<<"E", "2">>))
          @@ ("lastModifiedDateTime" :> Str(WrappedEpoch(PastMaxDate)))

\* a date column holding text that is no date
PosOdd == ("code" :> Str(<<"D">>)) @@ ("department" :> Str(<<"E", "3">>))
          @@ ("effectiveEndDate" :> Str(<<"x", "x">>))

\* a date column holding a number
PosNum == ("code" :> Str(<<"F">>)) @@ ("department" :> Str(<<"E", "4">>))
          @@ ("effectiveStartDate" :> Num(1500))

\* one record that passes the department filter and one that does not
Positions == {PosEng, PosOps}

\* records that pass the filter, with well-formed and malformed date values
DataPositions == {PosEng, PosOdd, PosFar, PosNum}

\* records for the statement generators: with and without a code, with the
\* same code twice, with a quote in the code, with the text null as code
SqlA1 == ("code" :> Str(<<"A">>)) @@ ("jobTitle" :> Str(<<"x">>))

SqlA2 == ("code" :> Str(<<"A">>)) @@ ("jobTitle" :> Str(<<"y">>))
         @@ ("effectiveStartDate" :> Str(WrappedEpoch(<<"-", "1">>)))
         @@ ("positionCriticality" :> Num(1))

SqlNullCode == ("code" :> Null) @@ ("jobTitle" :> Str(<<"n">>))

SqlNoCode == ("jobTitle" :> Str(<<"m">>)) @@ ("cust_max" :> Num(70))

SqlNullText == ("code" :> Str(<<"n", "u", "l", "l">>)) @@ ("jobTitle" :> Str(<<"t">>))

SqlQuote == ("code" :> Str(<<"O", "'", "B">>)) @@ ("lastModifiedDateTime" :> Str(DateText("2", "0", "2", "4", "0", "1", "1", "0")))

SqlRecords == {SqlA1, SqlA2, SqlNullCode, SqlNoCode, SqlNullText, SqlQuote}

\* the i-th record of the upstream's dataset: the code tells the records
\* apart; every second one is outside the department filter
DataRecord(i) ==
    ("code" :> Str(NatText(i)))
    @@ ("department" :> Str(IF i % 2 = 1 THEN <<"E", "N", "G">> ELSE <<"S", "1">>))

\* datasets of every size the loop can finish within MaxPages pages
MaxDataset == MaxPageSize * (MaxPages - 1)

Dataset(m) == [i \in 1..m |-> DataRecord(i)]

\* start and end dates a trigger request may carry
GoodDate == Str(DateText("2", "0", "2", "4", "0", "1", "1", "0"))

GoodDateTime == Str(GoodDate.s \o <<"T", "0", "8", ":", "3", "0", ":", "0", "0">>)

BadHourDateTime == Str(GoodDate.s \o <<"T", "2", "5", ":", "0", "0", ":", "0", "0">>)

BadShapeDate == Str(<<"1", "0", "/", "0", "1", "/", "2", "0", "2", "4">>)

BadMonthDate == Str(DateText("2", "0", "2", "4", "1", "3", "0", "1"))

DateInputs == {Undefined, GoodDate, BadShapeDate, BadMonthDate, BadHourDateTime}

\* arrays of at most n elements of S
SeqsUpTo(S, n) == UNION {[1..k -> S] : k \in 0..n}


(***************************************************************************)
(* State                                                                   *)
(***************************************************************************)
VARIABLES
    now,                  \* the clock, in milliseconds since the first reading
    pageSize,             \* config.sync.pageSize
    pc,                   \* where each invocation of the trigger is
    startDate,            \* the dates the handler received
    endDate,
    page,                 \* the locals of syncPositions
    skip,
    totalFetched,
    totalFiltered,
    allFilteredPositions,
    attempt,              \* the locals of the running fetchPositions call
    params,               \* (its request is outstanding while pc is "request")
    lastError,
    requests,             \* history: requests issued by the running call
    failures,             \* history: requests of the running call that failed
    waits,                \* history: the delays slept by the running call
    calls,                \* history: calls of fetchPositions by the invocation
    pageCounts,           \* history: the record count of every page returned
    response,             \* what the handler has answered
    files,                \* the file system: file name -> content
    written,              \* history: the file names each invocation has written
    sqlInput,             \* records handed to the statement generators
    oracleSql,            \* the merge-style statement generated for each
    postgresSql,          \* the conflict-style statement generated for each
    cursor,               \* how many of the statements have been executed
    oracleTable,          \* job_sf_position in the Oracle database
    postgresTable,        \* job_sf_position in the PostgreSQL database
    dataset,              \* the records the upstream holds, when it serves by offset
    call,                 \* a direct call of one of the functions: its arguments
    result                \* and what the call returned

loopVars == <<page, skip, totalFetched, totalFiltered, allFilteredPositions>>

callVars == <<attempt, params, lastError, requests, failures, waits, calls>>

outVars == <<response, files, written>>

syncVars == <<now, pageSize, pc, startDate, endDate, loopVars, callVars, pageCounts, outVars>>

sqlVars == <<sqlInput, oracleSql, postgresSql, cursor, oracleTable, postgresTable>>

fnVars == <<call, result>>

vars == <<syncVars, sqlVars, fnVars, dataset>>

NoRequest == [top |-> 0, skip |-> 0, filter |-> [ge |-> Null, le |-> Null]]

NoFailure == [code |-> "", status |-> 0]

NoFile == [stem |-> "", timestamp |-> <<>>, suffix |-> ""]

NoError == [kind |-> "", status |-> 0, code |-> ""]

NoResponse ==
    [status |-> 0, success |-> FALSE, error |-> NoError, totalFetched |-> 0,
     totalFiltered |-> 0, sqlStatementsGenerated |-> 0, oracleFile |-> NoFile,
     postgresFile |-> NoFile]

ErrorResponse(st, err) == [NoResponse EXCEPT !.status = st, !.error = err]

InitRuns ==
    /\ now = 0
    /\ pc = [s \in Runs |-> "idle"]
    /\ startDate = [s \in Runs |-> Undefined]
    /\ endDate = [s \in Runs |-> Undefined]
    /\ page = [s \in Runs |-> 0]
    /\ skip = [s \in Runs |-> 0]
    /\ totalFetched = [s \in Runs |-> 0]
    /\ totalFiltered = [s \in Runs |-> 0]
    /\ allFilteredPositions = [s \in Runs |-> <<>>]
    /\ attempt = [s \in Runs |-> 0]
    /\ params = [s \in Runs |-> NoRequest]
    /\ lastError = [s \in Runs |-> NoFailure]
    /\ requests = [s \in Runs |-> 0]
    /\ failures = [s \in Runs |-> 0]
    /\ waits = [s \in Runs |-> <<>>]
    /\ calls = [s \in Runs |-> 0]
    /\ pageCounts = [s \in Runs |-> <<>>]
    /\ response = [s \in Runs |-> NoResponse]
    /\ files = <<>>
    /\ written = [s \in Runs |-> {}]

\* no statement is generated or executed outside syncPositions
InitNoSql ==
    /\ sqlInput = <<>>
    /\ oracleSql = <<>>
    /\ postgresSql = <<>>
    /\ cursor = 0
    /\ oracleTable = <<>>
    /\ postgresTable = <<>>

\* a direct call: the function called and its arguments (those it does not
\* take are left empty)
Call(fn, value, columnName, dbType, record, positions, prefix) ==
    [fn |-> fn, value |-> value, columnName |-> columnName, dbType |-> dbType,
     record |-> record, positions |-> positions, prefix |-> prefix]

NoCall == Call("", Null, "", "", <<>>, <<>>, <<>>)

\* the call has not returned
Pending == [returned |-> FALSE, ok |-> FALSE, val |-> Null]

\* no function is called directly and the upstream is not bound to a dataset
InitNoCall ==
    /\ call = NoCall
    /\ result = Pending
    /\ dataset = <<>>

Init ==
    /\ InitRuns
    /\ InitNoSql
    /\ InitNoCall
    /\ pageSize \in 1..MaxPageSize

(***************************************************************************)
(* fetchPositions, from the call to its first await: the filter is built   *)
(* and the first request is issued                                         *)
(***************************************************************************)
CallFetchPositions(s, top, sk, sd, ed) ==
    /\ params' = [params EXCEPT ![s] =
                     [top |-> top, skip |-> sk, filter |-> buildDateFilter(sd, ed, now)]]
    /\ attempt' = [attempt EXCEPT ![s] = 1]
    /\ lastError' = [lastError EXCEPT ![s] = NoFailure]
    /\ requests' = [requests EXCEPT ![s] = 1]
    /\ failures' = [failures EXCEPT ![s] = 0]
    /\ waits' = [waits EXCEPT ![s] = <<>>]
    /\ calls' = [calls EXCEPT ![s] = @ + 1]

\* the handler answers 400 without calling syncPositions
Reject(s, which) ==
    /\ pc' = [pc EXCEPT ![s] = "rejected"]
    /\ response' = [response EXCEPT ![s] =
                       ErrorResponse(400, [kind |-> "Invalid format", status |-> 0, code |-> which])]
    /\ UNCHANGED <<loopVars, callVars, files, written>>

\* syncPositions, from the call to the first await
StartSync(s, sd, ed) ==
    /\ pc' = [pc EXCEPT ![s] = "request"]
    /\ page' = [page EXCEPT ![s] = 1]
    /\ skip' = [skip EXCEPT ![s] = 0]
    /\ totalFetched' = [totalFetched EXCEPT ![s] = 0]
    /\ totalFiltered' = [totalFiltered EXCEPT ![s] = 0]
    /\ allFilteredPositions' = [allFilteredPositions EXCEPT ![s] = <<>>]
    /\ CallFetchPositions(s, pageSize, 0, sd, ed)
    /\ UNCHANGED <<response, files, written>>

\* the body of both route handlers
HandleSync(s, sd, ed) ==
    /\ pc[s] = "idle"
    /\ startDate' = [startDate EXCEPT ![s] = sd]
    /\ endDate' = [endDate EXCEPT ![s] = ed]
    /\ IF ~isValidDate(sd) THEN Reject(s, "startDate")
       ELSE IF ~isValidDate(ed) THEN Reject(s, "endDate")
       ELSE StartSync(s, sd, ed)
    /\ UNCHANGED <<now, pageSize, pageCounts>>

\* app.post("/api/sync"): the dates are fields of a JSON body
PostSync(s, sd, ed) == HandleSync(s, sd, ed) /\ UNCHANGED <<sqlVars, fnVars, dataset>>

\* app.get("/api/sync"): the dates are query parameters
GetSync(s, sd, ed) == HandleSync(s, sd, ed) /\ UNCHANGED <<sqlVars, fnVars, dataset>>

\* new Date().toISOString().replace(/[:.]/g, "-")
FileTimestamp(t) == ReplaceAll(ReplaceAll(toISOString(CurrentTime(t)), ":", <<"-">>), ".", <<"-">>)

\* `${baseFileName}_oracle.sql`, `${baseFileName}_postgres.sql`
OutputFile(t, dbType) ==
    [stem |-> outputStem, timestamp |-> FileTimestamp(t), suffix |-> "_" \o dbType \o ".sql"]

\* every record the upstream may return, with its statement in each dialect;
\* computed once, the generators being pure functions of the record
InputRecords ==
    Positions \cup DataPositions \cup SqlRecords \cup {DataRecord(i) : i \in 1..MaxDataset}

Statements ==
    [dbType \in {"oracle", "postgres"} |->
        [record \in InputRecords |-> generateInsertIfNotExists(record, dbType)]]

\* variant: the statements are pushed in front of the earlier ones
GenerateAllReversed(all, dbType) ==
    [i \in 1..Len(all) |-> Statements[dbType][all[Len(all) + 1 - i]]]

\* the loop over allFilteredPositions that fills oracleStatements and
\* postgresStatements
GenerateAll(all, dbType) == [i \in 1..Len(all) |-> Statements[dbType][all[i]]]

Document(s, sd, ed, dbType, statements) ==
    [header |-> generateSqlHeader(sd, ed, dbType, toISOString(CurrentTime(now)), departmentFilter),
     statements |-> [i \in 1..Len(statements) |-> statements[i].val],
     footer |-> generateSqlFooter(Len(statements)),
     writer |-> s]

\* variant: what was accumulated is flushed to the oracle file on the way out
AbortSyncFlushing(s, err) ==
    /\ pc' = [pc EXCEPT ![s] = "failed"]
    /\ response' = [response EXCEPT ![s] = ErrorResponse(500, err)]
    /\ files' = (OutputFile(now, "oracle")
                    :> Document(s, startDate[s], endDate[s], "oracle",
                                GenerateAll(allFilteredPositions[s], "oracle")))
                @@ files
    /\ written' = [written EXCEPT ![s] = @ \cup {OutputFile(now, "oracle")}]

\* a thrown error leaves syncPositions and the handler answers 500
AbortSync(s, err) ==
    /\ pc' = [pc EXCEPT ![s] = "failed"]
    /\ response' = [response EXCEPT ![s] = ErrorResponse(500, err)]
    /\ UNCHANGED <<files, written>>

\* both documents are written and the summary returned
WriteFiles(s, oracleStatements, postgresStatements, oracleFile, postgresFile, fetched, filtered) ==
    /\ files' = (postgresFile :> Document(s, startDate[s], endDate[s], "postgres",
                                          postgresStatements))
                @@ (oracleFile :> Document(s, startDate[s], endDate[s], "oracle",
                                           oracleStatements))
                @@ files
    /\ written' = [written EXCEPT ![s] = @ \cup {oracleFile, postgresFile}]
    /\ pc' = [pc EXCEPT ![s] = "done"]
    /\ response' = [response EXCEPT ![s] =
                       [status |-> 200, success |-> TRUE, error |-> NoError,
                        totalFetched |-> fetched, totalFiltered |-> filtered,
                        sqlStatementsGenerated |-> Len(oracleStatements),
                        oracleFile |-> oracleFile, postgresFile |-> postgresFile]]

\* the statements of both dialects are generated before anything is written
GenerateThenWrite(s, oracleStatements, postgresStatements, fetched, filtered) ==
    IF \E i \in 1..Len(oracleStatements) : ~oracleStatements[i].ok \/ ~postgresStatements[i].ok
    THEN AbortSync(s, [kind |-> "RangeError or TypeError", status |-> 0, code |-> ""])
    ELSE WriteFiles(s, oracleStatements, postgresStatements, OutputFile(now, "oracle"),
                    OutputFile(now, "postgres"), fetched, filtered)

\* syncPositions after the loop
FinishSync(s, all, fetched, filtered) ==
    GenerateThenWrite(s, GenerateAll(all, "oracle"), GenerateAll(all, "postgres"),
                      fetched, filtered)

\* variant: only an empty page ends the loop
EndOfDataWhenEmpty(fetchedCount, size) == fetchedCount = 0

\* variant: a full page ends the loop as well
EndOfDataAtFullPage(fetchedCount, size) == fetchedCount <= size

\* fetchedCount < config.sync.pageSize ends the loop
EndOfData(fetchedCount, size) == fetchedCount < size

\* variant: the records are taken from the body wherever it carries them
ResultsOfAnyBody(body) == body.results

\* response.data?.d?.results || []
Results(body) == IF body.envelope THEN body.results ELSE <<>>

\* variant: the offset moves on by one record
NextSkipByOne(sk, size) == sk + 1

\* skip += config.sync.pageSize
NextSkip(sk, size) == sk + size

\* one pass of the loop body over the page that fetchPositions returned
LoopBody(s, fetchedCount, filteredPositions) ==
    /\ totalFetched' = [totalFetched EXCEPT ![s] = @ + fetchedCount]
    /\ totalFiltered' = [totalFiltered EXCEPT ![s] = @ + Len(filteredPositions)]
    /\ allFilteredPositions' = [allFilteredPositions EXCEPT ![s] = @ \o filteredPositions]
    /\ IF EndOfData(fetchedCount, pageSize)
       THEN /\ FinishSync(s, allFilteredPositions[s] \o filteredPositions,
                          totalFetched[s] + fetchedCount,
                          totalFiltered[s] + Len(filteredPositions))
            /\ UNCHANGED <<page, skip, callVars>>
       ELSE /\ page[s] < MaxPages
            /\ page' = [page EXCEPT ![s] = @ + 1]
            /\ skip' = [skip EXCEPT ![s] = NextSkip(@, pageSize)]
            /\ CallFetchPositions(s, pageSize, NextSkip(skip[s], pageSize), startDate[s],
                                  endDate[s])
            /\ UNCHANGED <<pc, response, files, written>>

\* the request succeeds: fetchPositions returns and the loop body runs, up to
\* the next request or to the end of syncPositions
ResponseOk(s, body) ==
    /\ pc[s] = "request"
    /\ Len(Results(body)) <= params[s].top
    /\ pageCounts' = [pageCounts EXCEPT ![s] = Append(@, Len(Results(body)))]
    /\ LoopBody(s, Len(Results(body)), filterByDepartment(Results(body), departmentFilter))
    /\ UNCHANGED <<now, pageSize, startDate, endDate, sqlVars, fnVars, dataset>>

\* the request fails: the catch block sleeps before the next attempt, or the
\* loop is left and the error thrown
ResponseError(s, error) ==
    /\ pc[s] = "request"
    /\ lastError' = [lastError EXCEPT ![s] = error]
    /\ failures' = [failures EXCEPT ![s] = @ + 1]
    /\ IF WillRetry(error, attempt[s])
       THEN /\ waits' = [waits EXCEPT ![s] = Append(@, BackoffDelay(attempt[s]))]
            /\ pc' = [pc EXCEPT ![s] = "sleep"]
            /\ UNCHANGED <<response, files, written>>
       ELSE /\ AbortSync(s, FetchErrorMessage(error))
            /\ UNCHANGED waits
    /\ UNCHANGED <<now, pageSize, startDate, endDate, loopVars, attempt, params, requests,
                   calls, pageCounts, sqlVars, fnVars, dataset>>

\* variant: the retry is issued without awaiting the response or the sleep
TimerFiresUnawaited(s) ==
    /\ pc[s] \in {"request", "sleep"}
    /\ failures[s] >= 1
    /\ pc' = [pc EXCEPT ![s] = "request"]
    /\ attempt' = [attempt EXCEPT ![s] = @ + 1]
    /\ requests' = [requests EXCEPT ![s] = @ + 1]
    /\ UNCHANGED <<now, pageSize, startDate, endDate, loopVars, params, lastError, failures,
                   waits, calls, pageCounts, outVars, sqlVars, fnVars, dataset>>

\* variant: a sleep longer than the base delay is never woken
TimerFiresIfShort(s) ==
    /\ pc[s] = "sleep"
    /\ waits[s][Len(waits[s])] <= retryDelay
    /\ pc' = [pc EXCEPT ![s] = "request"]
    /\ attempt' = [attempt EXCEPT ![s] = @ + 1]
    /\ requests' = [requests EXCEPT ![s] = @ + 1]
    /\ UNCHANGED <<now, pageSize, startDate, endDate, loopVars, params, lastError, failures,
                   waits, calls, pageCounts, outVars, sqlVars, fnVars, dataset>>

\* the sleep ends: attempt++ and the same request is issued again
TimerFires(s) ==
    /\ pc[s] = "sleep"
    /\ pc' = [pc EXCEPT ![s] = "request"]
    /\ attempt' = [attempt EXCEPT ![s] = @ + 1]
    /\ requests' = [requests EXCEPT ![s] = @ + 1]
    /\ UNCHANGED <<now, pageSize, startDate, endDate, loopVars, params, lastError, failures,
                   waits, calls, pageCounts, outVars, sqlVars, fnVars, dataset>>

\* time passes
Tick ==
    /\ now < MaxTicks * TickMs
    /\ now' = now + TickMs
    /\ UNCHANGED <<pageSize, pc, startDate, endDate, loopVars, callVars, pageCounts, outVars,
                   sqlVars, fnVars, dataset>>

\* bodies of a successful response: records inside the d.results envelope, or
\* a body without the envelope, whatever it carries elsewhere
Bodies(S, n) ==
    {[envelope |-> e, results |-> r] : e \in BOOLEAN, r \in SeqsUpTo(S, n)}

\* a JSON body may also carry a number
PostInputs == DateInputs \cup {Num(20240110)}

\* one invocation of the trigger
MainRuns == {1}

Next ==
    \/ \E s \in MainRuns, sd \in PostInputs, ed \in PostInputs : PostSync(s, sd, ed)
    \/ \E s \in MainRuns, sd \in DateInputs, ed \in DateInputs : GetSync(s, sd, ed)
    \/ \E s \in MainRuns, body \in Bodies(Positions, pageSize) : ResponseOk(s, body)
    \/ \E s \in MainRuns, error \in Errors : ResponseError(s, error)
    \/ \E s \in MainRuns : TimerFires(s)
    \/ Tick

Spec == Init /\ [][Next]_vars

(***************************************************************************)
(* Overlapping invocations: every invocation of the trigger may be in      *)
(* flight at once; the page size is 1 and no dates are given               *)
(***************************************************************************)
InitConc ==
    /\ InitRuns
    /\ InitNoSql
    /\ InitNoCall
    /\ pageSize = 1

ConcErrors == {[code |-> "ERR_BAD_REQUEST", status |-> 404]}

NextConc ==
    \/ \E s \in Runs : GetSync(s, Undefined, Undefined)
    \/ \E s \in Runs, body \in Bodies(DataPositions, pageSize) : ResponseOk(s, body)
    \/ \E s \in Runs, error \in ConcErrors : ResponseError(s, error)
    \/ Tick

SpecConc == InitConc /\ [][NextConc]_vars

(***************************************************************************)
(* A faithful upstream: it holds a finite dataset and answers a request    *)
(* with the records at the requested offset, at most $top of them          *)
(***************************************************************************)
InitServe ==
    /\ InitRuns
    /\ InitNoSql
    /\ call = NoCall
    /\ result = Pending
    /\ pageSize \in 1..MaxPageSize
    /\ dataset \in {Dataset(m) : m \in 0..MaxDataset}

\* the records of the dataset at offset sk, at most top of them
PageOf(data, sk, top) == SubSeq(data, sk + 1, Min(sk + top, Len(data)))

\* the outstanding request is answered from the dataset
Serve(s) ==
    ResponseOk(s, [envelope |-> TRUE,
                   results |-> PageOf(dataset, params[s].skip, params[s].top)])

ServeDates == {Undefined, GoodDate, GoodDateTime}

ServeErrors == {[code |-> "ETIMEDOUT", status |-> 0]}

NextServe ==
    \/ \E s \in MainRuns, sd \in ServeDates, ed \in ServeDates : GetSync(s, sd, ed)
    \/ \E s \in MainRuns : Serve(s)
    \/ \E s \in MainRuns, error \in ServeErrors : ResponseError(s, error)
    \/ \E s \in MainRuns : TimerFires(s)
    \/ Tick

SpecServe == InitServe /\ [][NextServe]_vars

(***************************************************************************)
(* An upstream that answers: every request completes, with a page or with  *)
(* an error, every sleep of the retry loop ends, and a page with fewer     *)
(* records than the page size keeps being possible (at most MaxPages - 1   *)
(* full pages are returned to one invocation)                              *)
(***************************************************************************)
\* a record whose statement is generated and one for which generation throws
LivePositions == {PosEng, PosFar}

\* a retryable and a non-retryable failure
LiveErrors == {[code |-> "ETIMEDOUT", status |-> 0], [code |-> "ERR_BAD_REQUEST", status |-> 404]}

\* the outstanding request completes: it fails or it succeeds
Completes(s) ==
    \/ \E error \in LiveErrors : ResponseError(s, error)
    \/ \E body \in Bodies(LivePositions, pageSize) : ResponseOk(s, body)

NextLive ==
    \/ \E s \in MainRuns : GetSync(s, Undefined, Undefined)
    \/ \E s \in MainRuns : Completes(s)
    \/ \E s \in MainRuns : TimerFires(s)

\* await of the request (the client's timeout bounds it) and await of
\* setTimeout: neither is left pending forever
Fairness ==
    \A s \in MainRuns :
        /\ WF_vars(Completes(s))
        /\ WF_vars(TimerFires(s))

SpecLive == Init /\ [][NextLive]_vars /\ Fairness

(***************************************************************************)
(* The exported functions, called directly: one call per behaviour, its    *)
(* arguments drawn at the start                                            *)
(***************************************************************************)
MaxPositions == 2

\* the text of an integer, with its sign
IntText(k) == IF k < 0 THEN <<"-">> \o NatText(0 - k) ELSE NatText(k)

\* an integer N as it is written in /Date(N)/, with the day and the
\* millisecond of the day it denotes
EpochCase(k) == [n |-> IntText(k), days |-> k \div DayMs, ms |-> k % DayMs]

SmallEpochs ==
    {0, 1, 0 - 1, 999, 1500, 0 - 1500, 86399999, 86400000, 0 - 86400000, 0 - 86400001,
     2147483647, 0 - 2147483647}

\* 2023-11-14T22:13:20Z, the ends of the range of Date, the first day of the
\* year 10000, the last millisecond of the year -1, and 2000-02-29
LargeEpochs ==
    {[n |-> <<"1", "7", "0", "0", "0", "0", "0", "0", "0", "0", "0", "0", "0">>, days |-> 19675, ms |-> 80000000],
     [n |-> <<"8", "6", "4", "0", "0", "0", "0", "0", "0", "0", "0", "0", "0", "0", "0", "0">>, days |-> 100000000, ms |-> 0],
     [n |-> <<"-", "8", "6", "4", "0", "0", "0", "0", "0", "0", "0", "0", "0", "0", "0", "0", "0">>, days |-> 0 - 100000000, ms |-> 0],
     [n |-> <<"2", "5", "3", "4", "0", "2", "3", "0", "0", "8", "0", "0", "0", "0", "0">>, days |-> 2932897, ms |-> 0],
     [n |-> <<"-", "6", "2", "1", "6", "7", "2", "1", "9", "2", "0", "0", "0", "0", "1">>, days |-> 0 - 719529, ms |-> 86399999],
     [n |-> <<"9", "5", "1", "7", "8", "2", "4", "0", "0", "0", "0", "0">>, days |-> 11016, ms |-> 0]}

EpochCases == {EpochCase(k) : k \in SmallEpochs} \cup LargeEpochs

\* no offset, +0000, +0530, -0800
Offsets == {<<>>, <<"+", "0", "0", "0", "0">>, <<"+", "0", "5", "3", "0">>,
            <<"-", "0", "8", "0", "0">>}

\* /Date(N)/ or /Date(N+offset)/
Wrapped(n, offset) == DatePrefix \o n \o offset \o <<")", "/">>

ParseCalls ==
    {Call("parseSFDate", Str(Wrapped(c.n, o)), "", "", <<>>, <<>>, <<>>) :
        c \in EpochCases, o \in Offsets}

\* values of a column: absent, null, texts with and without quotes, numbers
ColumnValues ==
    {Null, Undefined, Str(<<>>), Str(<<"a">>), Str(<<"O", "'", "B">>), Str(<<"'", "'">>),
     Str(<<"'">>), Str(<<"N", "U", "L", "L">>), Str(<<"n", "u", "l", "l">>), Num(0), Num(70),
     Str(WrappedEpoch(<<"1", "5", "0", "0">>))}

FormatCalls ==
    {Call("formatSqlValue", v, col, db, <<>>, <<>>, <<>>) :
        v \in ColumnValues,
        col \in {"code", "job_title", "cust_max", "effective_start_date"},
        db \in {"oracle", "postgres"}}

\* a record with an empty text and a zero among its mapped fields
SqlBlank == ("code" :> Str(<<>>)) @@ ("cust_max" :> Num(0)) @@ ("department" :> Null)

\* a record without any field
NoFields == [field \in {} |-> Null]

TransformCalls ==
    {Call("transformRecord", Null, "", "", r, <<>>, <<>>) :
        r \in SqlRecords \cup {PosEng, PosOps, SqlBlank, NoFields}}

\* departments in another case, equal to the prefix, null and absent
DepLower == ("code" :> Str(<<"L">>)) @@ ("department" :> Str(<<"e", "1">>))

DepExact == ("code" :> Str(<<"X">>)) @@ ("department" :> Str(<<"E">>))

DepNull == ("code" :> Str(<<"N">>)) @@ ("department" :> Null)

FilterRecords == {PosEng, PosOps, SqlA1, DepLower, DepExact, DepNull}

Prefixes == {<<>>, <<"E">>, <<"E", "1">>}

FilterCalls ==
    {Call("filterByDepartment", Null, "", "", <<>>, ps, prefix) :
        ps \in SeqsUpTo(FilterRecords, MaxPositions), prefix \in Prefixes}

InitPure ==
    /\ InitRuns
    /\ InitNoSql
    /\ pageSize = 1
    /\ dataset = <<>>
    /\ call \in ParseCalls \cup FormatCalls \cup TransformCalls \cup FilterCalls
    /\ result = Pending

\* the call returned x, or threw
Returned(outcome) == [returned |-> TRUE, ok |-> outcome.ok, val |-> outcome.val]

CallParseSFDate ==
    /\ call.fn = "parseSFDate"
    /\ ~result.returned
    /\ result' = Returned(parseSFDate(call.value))
    /\ UNCHANGED <<call, dataset, syncVars, sqlVars>>

CallFormatSqlValue ==
    /\ call.fn = "formatSqlValue"
    /\ ~result.returned
    /\ result' = Returned(formatSqlValue(call.value, call.columnName, call.dbType))
    /\ UNCHANGED <<call, dataset, syncVars, sqlVars>>

CallTransformRecord ==
    /\ call.fn = "transformRecord"
    /\ ~result.returned
    /\ result' = Returned(Returns(transformRecord(call.record)))
    /\ UNCHANGED <<call, dataset, syncVars, sqlVars>>

CallFilterByDepartment ==
    /\ call.fn = "filterByDepartment"
    /\ ~result.returned
    /\ result' = Returned(Returns(filterByDepartment(call.positions, call.prefix)))
    /\ UNCHANGED <<call, dataset, syncVars, sqlVars>>

NextPure ==
    \/ CallParseSFDate
    \/ CallFormatSqlValue
    \/ CallTransformRecord
    \/ CallFilterByDepartment

SpecPure == InitPure /\ [][NextPure]_vars

(***************************************************************************)
(* The generated statements, executed: each dialect's statements are run  *)
(* in order against its own job_sf_position table                         *)
(***************************************************************************)
MaxRecords == 2

SqlNull == [null |-> TRUE, kind |-> "", text |-> <<>>]

SqlText(txt) == [null |-> FALSE, kind |-> "text", text |-> txt]

SqlTimestamp(txt) == [null |-> FALSE, kind |-> "timestamp", text |-> txt]

\* the content of a quoted literal: two quotes stand for one
RECURSIVE Unquote(_)
Unquote(txt) ==
    IF txt = <<>> THEN <<>>
    ELSE IF Len(txt) >= 2 /\ txt[1] = "'" /\ txt[2] = "'"
    THEN <<"'">> \o Unquote(SubSeq(txt, 3, Len(txt)))
    ELSE <<txt[1]>> \o Unquote(Tail(txt))

\* the place of the quote that closes a literal whose content starts at i
RECURSIVE LiteralEnd(_, _)
LiteralEnd(txt, i) ==
    IF i > Len(txt) THEN Len(txt) + 1
    ELSE IF txt[i] # "'" THEN LiteralEnd(txt, i + 1)
    ELSE IF i < Len(txt) /\ txt[i + 1] = "'" THEN LiteralEnd(txt, i + 2)
    ELSE i

\* the content of the quoted literal that opens at position i
LiteralAt(txt, i) == Unquote(SubSeq(txt, i + 1, LiteralEnd(txt, i + 1) - 1))

ToTimestampCall == <<"T", "O", "_", "T", "I", "M", "E", "S", "T", "A", "M", "P", "(">>

\* the value of an expression of a statement: NULL, TO_TIMESTAMP('..', '..'),
\* '..'::timestamp or '..'
Evaluate(expression) ==
    IF expression = NullLiteral THEN SqlNull
    ELSE IF StartsWith(expression, ToTimestampCall)
    THEN SqlTimestamp(LiteralAt(expression, Len(ToTimestampCall) + 1))
    ELSE IF LiteralEnd(expression, 2) < Len(expression)
    THEN SqlTimestamp(LiteralAt(expression, 1))
    ELSE SqlText(LiteralAt(expression, 1))

\* the place of a column in the column list
ColumnIndex(columns, col) == CHOOSE i \in 1..Len(columns) : columns[i] = col

\* the row INSERT (<columns>) VALUES (<values>) adds
RowOf(statement) ==
    [col \in Range(statement.columns) |->
        Evaluate(statement.values[ColumnIndex(statement.columns, col)])]

\* some row's code equals the key; a comparison with NULL is never true
HasCode(table, key) ==
    /\ ~key.null
    /\ \E i \in 1..Len(table) : ~table[i]["code"].null /\ table[i]["code"].text = key.text

\* MERGE ... USING (SELECT <source> AS code FROM dual) source
\* ON (target.code = source.code) WHEN NOT MATCHED THEN INSERT ...
ExecuteMerge(table, statement) ==
    IF HasCode(table, Evaluate(statement.source)) THEN table
    ELSE Append(table, RowOf(statement))

\* INSERT ... ON CONFLICT (code) DO NOTHING
ExecuteInsert(table, statement) ==
    IF HasCode(table, RowOf(statement)["code"]) THEN table
    ELSE Append(table, RowOf(statement))

\* the table before the statements run: empty, or holding one position
InitialTables ==
    {<<>>} \cup {<<RowOf(Statements["postgres"][r].val)>> : r \in {SqlA1, SqlNullText}}

InitSql ==
    /\ InitRuns
    /\ InitNoCall
    /\ pageSize = 1
    /\ sqlInput = <<>>
    /\ oracleSql = <<>>
    /\ postgresSql = <<>>
    /\ cursor = 0
    /\ oracleTable \in InitialTables
    /\ postgresTable = oracleTable

\* one turn of the loop over allFilteredPositions: the statement of each
\* dialect is generated for the record
Generate(record) ==
    /\ Len(sqlInput) < MaxRecords
    /\ sqlInput' = Append(sqlInput, record)
    /\ oracleSql' = Append(oracleSql, Statements["oracle"][record].val)
    /\ postgresSql' = Append(postgresSql, Statements["postgres"][record].val)
    /\ UNCHANGED <<cursor, oracleTable, postgresTable, syncVars, fnVars, dataset>>

\* the next statement of each file is executed
Execute ==
    /\ cursor < Len(sqlInput)
    /\ cursor' = cursor + 1
    /\ oracleTable' = ExecuteMerge(oracleTable, oracleSql[cursor + 1])
    /\ postgresTable' = ExecuteInsert(postgresTable, postgresSql[cursor + 1])
    /\ UNCHANGED <<sqlInput, oracleSql, postgresSql, syncVars, fnVars, dataset>>

NextSql ==
    \/ \E record \in SqlRecords : Generate(record)
    \/ Execute

SpecSql == InitSql /\ [][NextSql]_vars

(***************************************************************************)
(* Properties                                                              *)
(***************************************************************************)
\* the retryable failures as the design states them: connection reset,
\* timeout, connection abort, or a server status of 500 and above
RetryableByDesign(error) ==
    \/ error.code \in {"ECONNRESET", "ETIMEDOUT", "ECONNABORTED"}
    \/ error.status >= 500

\* the invocation was ended by a fatal fetch error
FetchFailed(s) == pc[s] = "failed" /\ response[s].error.kind \in {"API Error", "Request Error"}

\* C1: a sync in which a page request ended in a fatal fetch error, on any
\* page, has written no output file (neither dialect), and the handler got
\* the error and no SyncResult.
C1_NoPartialWrites ==
    \A s \in Runs :
        FetchFailed(s) =>
            /\ written[s] = {}
            /\ \A f \in DOMAIN files : files[f].writer # s
            /\ response[s].status = 500
            /\ ~response[s].success
            /\ response[s].oracleFile = NoFile
            /\ response[s].postgresFile = NoFile

\* a fetch error on the second page or later, after records were accumulated
C1_Witness == \E s \in Runs : FetchFailed(s) /\ page[s] > 1 /\ totalFiltered[s] > 0

\* the pages returned so far are full ones followed by one short page
FullThenShort(s) ==
    /\ pageCounts[s] # <<>>
    /\ pageCounts[s][Len(pageCounts[s])] < pageSize
    /\ \A i \in 1..(Len(pageCounts[s]) - 1) : pageCounts[s][i] = pageSize

\* C2: after m - 1 full pages of N records and an m-th page of k < N records
\* the loop has stopped, fetchPositions was called exactly m times, and
\* totalFetched is (m - 1) * N + k, also in the SyncResult.
C2_PaginationTerminates ==
    \A s \in Runs :
        FullThenShort(s) =>
            /\ pc[s] \in {"done", "failed"}
            /\ calls[s] = Len(pageCounts[s])
            /\ totalFetched[s] = (Len(pageCounts[s]) - 1) * pageSize
                                 + pageCounts[s][Len(pageCounts[s])]
            /\ pc[s] = "done" => response[s].totalFetched = totalFetched[s]

\* two full pages, then a short page that is not empty
C2_Witness ==
    \E s \in Runs :
        /\ pc[s] = "done"
        /\ Len(pageCounts[s]) = 3
        /\ pageCounts[s][3] > 0
        /\ FullThenShort(s)

\* C3: while a request of a call is outstanding, and when the call has
\* returned, the call has failed j < retryAttempts times, has issued j + 1
\* requests and has waited j times, the i-th wait being retryDelay * 2^(i-1).
C3_RetryBackoff ==
    \A s \in Runs :
        pc[s] \in {"request", "done"} =>
            /\ failures[s] < retryAttempts
            /\ requests[s] = failures[s] + 1
            /\ Len(waits[s]) = failures[s]
            /\ \A i \in 1..Len(waits[s]) : waits[s][i] = retryDelay * 2 ^ (i - 1)

\* a call that failed twice and then succeeded: 3 requests, waits 1000, 2000
C3_Witness ==
    \E s \in Runs :
        /\ pc[s] = "done"
        /\ failures[s] = 2
        /\ requests[s] = 3
        /\ Len(waits[s]) = 2
        /\ waits[s][2] = 2 * waits[s][1]

C4_Ceiling ==
    \A s \in Runs :
        /\ requests[s] <= retryAttempts
        /\ (pc[s] = "failed" /\ failures[s] > 0 /\ RetryableByDesign(lastError[s])) =>
              /\ requests[s] = retryAttempts
              /\ failures[s] = retryAttempts
              /\ Len(waits[s]) = retryAttempts - 1
              /\ FetchFailed(s)
              /\ response[s].status = 500

C4_Terminal ==
    \A s \in Runs :
        pc[s] = "failed" =>
            /\ pc'[s] = "failed"
            /\ requests'[s] = requests[s]
            /\ calls'[s] = calls[s]

\* C4: no call issues more than retryAttempts requests; a call whose every
\* attempt failed with a retryable error has issued exactly retryAttempts
\* requests and waited retryAttempts - 1 times, and a fatal error was
\* surfaced; a failed sync stays failed and issues no further request.
C4_RetriesExhausted == []C4_Ceiling /\ [][C4_Terminal]_vars

\* retries exhausted on the second page
C4_Witness ==
    \E s \in Runs :
        /\ FetchFailed(s)
        /\ RetryableByDesign(lastError[s])
        /\ requests[s] = retryAttempts
        /\ page[s] = 2

\* C5: a wait follows only a failure that is retryable by design; after any
\* other failure the sync has failed at once: no wait follows it and no
\* further request is issued, whatever the attempt.
C5_NonRetryableAborts ==
    \A s \in Runs :
        /\ pc[s] = "sleep" => RetryableByDesign(lastError[s])
        /\ (failures[s] > 0 /\ ~RetryableByDesign(lastError[s])) =>
              /\ FetchFailed(s)
              /\ Len(waits[s]) = failures[s] - 1
              /\ requests[s] = failures[s]

\* a 404 on the first attempt, with two attempts remaining
C5_Witness ==
    \E s \in Runs :
        /\ FetchFailed(s)
        /\ lastError[s].status = 404
        /\ requests[s] = 1
        /\ waits[s] = <<>>

\* the dates of the inputs that are not of the form yyyy-MM-dd or
\* yyyy-MM-ddTHH:mm:ss with fields in range
MalformedDates == {BadShapeDate, BadMonthDate, BadHourDateTime, Num(20240110)}

\* C7: a trigger with a malformed startDate or endDate is answered 400 and
\* has issued no request and written no file; every other trigger has
\* started a sync.
C7_MalformedDatesRejected ==
    \A s \in Runs :
        pc[s] # "idle" =>
            IF startDate[s] \in MalformedDates \/ endDate[s] \in MalformedDates
            THEN /\ pc[s] = "rejected"
                 /\ response[s].status = 400
                 /\ calls[s] = 0
                 /\ requests[s] = 0
                 /\ written[s] = {}
            ELSE pc[s] # "rejected" /\ calls[s] >= 1

\* a good startDate with an endDate whose month is 13
C7_Witness ==
    \E s \in Runs :
        /\ pc[s] = "rejected"
        /\ startDate[s] = GoodDate
        /\ endDate[s] = BadMonthDate

\* the statements a finished invocation generated from what it accumulated
OwnStatements(s, dbType) ==
    [i \in 1..Len(allFilteredPositions[s]) |-> Statements[dbType][allFilteredPositions[s][i]].val]

\* C6: the files of two invocations are distinct, and every file an invocation
\* wrote still holds what that invocation wrote: its own statements, generated
\* from the records it accumulated.
C6_DistinctOutputFiles ==
    \A s1 \in Runs :
        /\ \A s2 \in Runs \ {s1} : written[s1] \cap written[s2] = {}
        /\ \A f \in written[s1] :
              /\ files[f].writer = s1
              /\ files[f].statements =
                    OwnStatements(s1, IF f.suffix = "_oracle.sql" THEN "oracle" ELSE "postgres")

\* two invocations that accumulated different records have both finished
C6_BothWritten ==
    \E s1, s2 \in Runs :
        /\ s1 # s2
        /\ pc[s1] = "done" /\ pc[s2] = "done"
        /\ allFilteredPositions[s1] # allFilteredPositions[s2]

\* a value of a date column that is no date: no string, or text that neither
\* holds a wrapped epoch nor parses, or a time outside the range of Date
MalformedDateValue(v) ==
    /\ ~Falsy(v)
    /\ \/ v.t # "string"
       \/ ~(HasMatch(v.s) \/ DateParses(v.s))
       \/ ~ValidTime(DateOf(v.s))

Dialects == {"oracle", "postgres"}

\* C9: for every accumulated record with a malformed value in a date column,
\* parseSFDate returns null, formatSqlValue gives NULL and the statement is
\* generated; and a sync fails only through a fetch error.
C9_MalformedDateDegrades ==
    \A s \in Runs :
        /\ \A i \in 1..Len(allFilteredPositions[s]) :
              \A col \in dateColumns :
                 MalformedDateValue(transformRecord(allFilteredPositions[s][i])[col]) =>
                    /\ parseSFDate(transformRecord(allFilteredPositions[s][i])[col]) = Returns(Null)
                    /\ \A dbType \in Dialects :
                          /\ formatSqlValue(transformRecord(allFilteredPositions[s][i])[col],
                                            col, dbType) = Returns(NullLiteral)
                          /\ Statements[dbType][allFilteredPositions[s][i]].ok
        /\ pc[s] = "failed" => FetchFailed(s)

\* the part of C9 that holds: unparseable text in a date column
C9_UnparseableTextIsNull ==
    \A s \in Runs :
        \A i \in 1..Len(allFilteredPositions[s]) :
            \A col \in dateColumns :
                LET v == transformRecord(allFilteredPositions[s][i])[col]
                IN (v.t = "string" /\ ~Falsy(v) /\ ~HasMatch(v.s) /\ ~DateParses(v.s)) =>
                      \A dbType \in Dialects :
                          formatSqlValue(v, col, dbType) = Returns(NullLiteral)

\* no two rows of the table have the same code
NoDuplicateCode(table) ==
    \A i, j \in 1..Len(table) :
        (i # j /\ ~table[i]["code"].null /\ ~table[j]["code"].null) =>
            table[i]["code"].text # table[j]["code"].text

\* C8: from the same initial table, the merge-style statements and the
\* conflict-style statements generated from the same records leave the same
\* rows, and neither table ever holds a code twice.
C8_DialectsEquivalent ==
    /\ oracleTable = postgresTable
    /\ NoDuplicateCode(oracleTable)
    /\ NoDuplicateCode(postgresTable)

\* the destination columns: the values of fieldMapping in iteration order
ExpectedColumns == [k \in 1..Len(fieldMapping) |-> fieldMapping[k][2]]

\* the value a statement must list at place k for a record
ExpectedValue(record, k, dbType) ==
    formatSqlValue(OrNull(Field(record, fieldMapping[k][1])), fieldMapping[k][2], dbType).val

HasExpectedShape(statement, record, dbType) ==
    /\ statement.columns = ExpectedColumns
    /\ \A j, k \in 1..Len(statement.columns) :
          j # k => statement.columns[j] # statement.columns[k]
    /\ Len(statement.values) = Len(statement.columns)
    /\ \A k \in 1..Len(statement.values) :
          statement.values[k] = ExpectedValue(record, k, dbType)

\* C10: every generated statement of either dialect lists exactly the values
\* of fieldMapping, each once and in its order, and its value list has the
\* same length and order, whatever fields the record has.
C10_SameColumns ==
    \A i \in 1..Len(sqlInput) :
        /\ HasExpectedShape(oracleSql[i], sqlInput[i], "oracle")
        /\ HasExpectedShape(postgresSql[i], sqlInput[i], "postgres")

\* statements were generated for a record without a code and for a record
\* with dates and an unmapped field
C10_Witness ==
    /\ Len(sqlInput) = 2
    /\ sqlInput[1] = SqlNoCode
    /\ sqlInput[2] = SqlA2
    /\ oracleSql[1].columns = postgresSql[2].columns

\* the department of a record starts with the configured prefix
InDepartment(record) ==
    /\ "department" \in DOMAIN record
    /\ record["department"].t = "string"
    /\ Len(record["department"].s) >= Len(departmentFilter)
    /\ \A k \in 1..Len(departmentFilter) : record["department"].s[k] = departmentFilter[k]

\* the records of the dataset that pass the filter, in dataset order
Retained == SelectSeq(dataset, InDepartment)

\* the document holds one statement per retained record, in fetch order
HoldsRetained(document, dbType) ==
    /\ Len(document.statements) = Len(Retained)
    /\ \A i \in 1..Len(Retained) :
          document.statements[i] = generateInsertIfNotExists(Retained[i], dbType).val
    /\ document.footer.totalRecords = Len(Retained)

\* C11: after a successful sync against a faithful upstream, each dialect
\* document holds exactly one statement per fetched record whose department
\* starts with the prefix, in fetch order, and none for the others;
\* sqlStatementsGenerated = totalFiltered = the count of each footer, and
\* totalFiltered <= totalFetched.
C11_OneStatementPerRetained ==
    \A s \in Runs :
        pc[s] = "done" =>
            /\ response[s].oracleFile \in DOMAIN files
            /\ response[s].postgresFile \in DOMAIN files
            /\ HoldsRetained(files[response[s].oracleFile], "oracle")
            /\ HoldsRetained(files[response[s].postgresFile], "postgres")
            /\ response[s].sqlStatementsGenerated = Len(Retained)
            /\ response[s].totalFiltered = Len(Retained)
            /\ totalFiltered[s] = Len(Retained)
            /\ totalFiltered[s] <= totalFetched[s]
            /\ response[s].totalFetched = totalFetched[s]

\* a sync over several pages that kept two records and dropped others
C11_Witness ==
    \E s \in Runs :
        /\ pc[s] = "done"
        /\ Len(pageCounts[s]) >= 2
        /\ Len(Retained) = 2
        /\ totalFetched[s] > totalFiltered[s]

\* C18: against a faithful upstream whose dataset of M records is an exact
\* multiple of the page size N, a finished sync has made exactly M/N + 1
\* page requests, M/N full pages and then an empty one at offset M, has
\* totalFetched = M, and has accumulated every retained record once.
C18_ExactMultiple ==
    \A s \in Runs :
        (pc[s] = "done" /\ Len(dataset) % pageSize = 0) =>
            /\ calls[s] = (Len(dataset) \div pageSize) + 1
            /\ pageCounts[s] = [i \in 1..calls[s] |-> IF i < calls[s] THEN pageSize ELSE 0]
            /\ params[s].skip = Len(dataset)
            /\ totalFetched[s] = Len(dataset)
            /\ allFilteredPositions[s] = Retained

\* four records in pages of two: two full pages and an empty third
C18_Witness ==
    \E s \in Runs :
        /\ pc[s] = "done"
        /\ pageSize = 2
        /\ Len(dataset) = 4
        /\ calls[s] = 3

\* a date is given
Given(date) == date.t = "string" /\ date.s # <<>>

\* a date-only input is extended with the time 00:00:00
WithTime(date) ==
    IF Len(date.s) = 10 THEN Str(date.s \o <<"T", "0", "0", ":", "0", "0", ":", "0", "0">>)
    ELSE date

\* the time one day before the clock reading t, cut to whole seconds, as
\* yyyy-MM-ddTHH:mm:ss
DayAgoToSeconds(t) ==
    SubSeq(toISOString([days |-> CurrentTime(t).days - 1,
                        ms |-> CurrentTime(t).ms - (CurrentTime(t).ms % 1000)]), 1, 19)

\* the bounds the claim gives for the dates sd and ed at clock reading t
ExpectedFilter(sd, ed, t) ==
    [ge |-> IF Given(sd) THEN WithTime(sd)
            ELSE IF Given(ed) THEN Null
            ELSE Str(DayAgoToSeconds(t)),
     le |-> IF Given(ed) THEN WithTime(ed) ELSE Null]

\* C19: whenever fetchPositions is called, the filter of its request is the
\* lower bound start and the upper bound end when both are given, the one
\* bound alone when one is given, and the lower bound "now minus one day, to
\* the second" when neither is; a date-only input gets the time 00:00:00.
C19_FilterConstruction ==
    [][\A s \in Runs :
          calls'[s] # calls[s] =>
              params'[s].filter = ExpectedFilter(startDate'[s], endDate'[s], now)]_vars

\* a later page of a sync without dates was requested half a second after
\* the first: the lower bound is the day before, without the half second
C19_Witness ==
    \E s \in Runs :
        /\ calls[s] >= 2
        /\ ~Given(startDate[s]) /\ ~Given(endDate[s])
        /\ now = TickMs
        /\ params[s].filter = [ge |-> Str(DayAgoToSeconds(TickMs)), le |-> Null]
        /\ DayAgoToSeconds(TickMs) = DayAgoToSeconds(0)

\* the invocation is inside syncPositions, with a request issued
Fetching(s) == pc[s] \in {"request", "sleep"}

\* C20: within one sync every request, on every page and every retry,
\* carries the filter of the request before it.
C20_SameFilterThroughout ==
    [][\A s \in Runs :
          (calls[s] >= 1 /\ Fetching(s) /\ pc'[s] = "request") =>
              params'[s].filter = params[s].filter]_vars

\* the part of C20 that holds: a retry carries the filter of the failed
\* attempt, and with a date given every page carries the same filter
C20_SameFilterOnRetryOrWithDates ==
    [][\A s \in Runs :
          (calls[s] >= 1 /\ Fetching(s) /\ pc'[s] = "request"
           /\ (calls'[s] = calls[s] \/ Given(startDate[s]) \/ Given(endDate[s]))) =>
              params'[s].filter = params[s].filter]_vars

\* the request that is outstanding or being retried asks for the page after
\* the pages fetched so far
C16_OffsetOfRequest ==
    \A s \in Runs :
        Fetching(s) =>
            /\ params[s].skip = pageSize * Len(pageCounts[s])
            /\ params[s].top = pageSize
            /\ (calls[s] = 1 => params[s].skip = 0)

\* the offset moves only with a successful full page, and then by pageSize;
\* a retry repeats the request
C16_OffsetStep ==
    \A s \in Runs :
        /\ (Fetching(s) /\ params'[s].skip # params[s].skip) =>
              /\ params'[s].skip = params[s].skip + pageSize
              /\ pageCounts'[s] = Append(pageCounts[s], pageSize)
        /\ (pc[s] = "sleep" /\ pc'[s] = "request") => params'[s] = params[s]
        /\ (Fetching(s) /\ Len(pageCounts'[s]) > Len(pageCounts[s])
            /\ pageCounts'[s][Len(pageCounts'[s])] = pageSize /\ Fetching(s)')
              => params'[s].skip = params[s].skip + pageSize

\* C16: within one sync every request carries offset = pageSize * (pages
\* fetched so far): the first has offset 0, a retry repeats the offset of the
\* failed attempt, and the offset grows by exactly pageSize after, and only
\* after, a successful full page.
C16_OffsetInvariant == []C16_OffsetOfRequest /\ [][C16_OffsetStep]_vars

\* the second page of two records each is being retried
C16_Witness ==
    \E s \in Runs :
        /\ pc[s] = "request"
        /\ attempt[s] = 2
        /\ pageSize = 2
        /\ params[s].skip = 2

\* requests of the running call that were issued and have not completed
Outstanding(s) == requests[s] - failures[s]

\* one request is outstanding while the call awaits the response, and none
\* while it sleeps
C17_OneOutstanding ==
    \A s \in Runs :
        /\ pc[s] = "request" => Outstanding(s) = 1
        /\ pc[s] = "sleep" => Outstanding(s) = 0
        /\ pc[s] \in {"idle", "rejected"} => requests[s] = 0

\* a request is issued only in the step in which the previous request
\* completed successfully (the next page) or the wait ended (the retry)
C17_IssuedInTurn ==
    \A s \in Runs :
        /\ (calls[s] >= 1 /\ calls'[s] # calls[s]) =>
              /\ pc[s] = "request"
              /\ pageCounts'[s] # pageCounts[s]
              /\ Outstanding(s)' = 1
        /\ (calls'[s] = calls[s] /\ requests'[s] # requests[s]) =>
              /\ pc[s] = "sleep"
              /\ pc'[s] = "request"
              /\ requests'[s] = requests[s] + 1
        /\ (pc[s] = "sleep" /\ pc'[s] = "sleep") => requests'[s] = requests[s]

\* C17: within one invocation at most one request is outstanding at any
\* time: the request for the next page, or the next retry, is issued only
\* after the previous one completed, and none is issued during a wait.
C17_OneAtATime == []C17_OneOutstanding /\ [][C17_IssuedInTurn]_vars

\* the second wait of a call on the second page is in progress
C17_Witness ==
    \E s \in Runs :
        /\ pc[s] = "sleep"
        /\ calls[s] = 2
        /\ failures[s] = 2
        /\ Outstanding(s) = 0

\* the length of the year in a canonical timestamp: four digits, or a sign
\* and six digits
YearWidth(txt) == IF txt[1] \in {"+", "-"} THEN 7 ELSE 4

YearOf(txt) ==
    IF txt[1] = "-" THEN 0 - DigitsNat(SubSeq(txt, 2, 7))
    ELSE IF txt[1] = "+" THEN DigitsNat(SubSeq(txt, 2, 7))
    ELSE DigitsNat(SubSeq(txt, 1, 4))

\* leap years among the years 1..k (negative for k < 0)
Leaps(k) == (k \div 4) - (k \div 100) + (k \div 400)

IsLeap(y) == y % 4 = 0 /\ (y % 100 # 0 \/ y % 400 = 0)

DaysBeforeMonth == <<0, 31, 59, 90, 120, 151, 181, 212, 243, 273, 304, 334>>

\* days from 1970-01-01 to the calendar date
DayNumber(y, m, d) ==
    365 * (y - 1970) + Leaps(y - 1) - Leaps(1969) + DaysBeforeMonth[m]
    + (IF m > 2 /\ IsLeap(y) THEN 1 ELSE 0) + d - 1

\* the text has the form yyyy-MM-dd HH:mm:ss.SSS, the year being w long
IsCanonical(txt, w) ==
    /\ Len(txt) = w + 19
    /\ txt[w + 1] = "-" /\ txt[w + 4] = "-" /\ txt[w + 7] = " "
    /\ txt[w + 10] = ":" /\ txt[w + 13] = ":" /\ txt[w + 16] = "."
    /\ \A i \in {2, 3, 5, 6, 8, 9, 11, 12, 14, 15, 17, 18, 19} : IsDigit(txt[w + i])

\* the day and the millisecond of the day a canonical timestamp denotes
EpochAt(txt, w) ==
    [days |-> DayNumber(YearOf(txt), DigitsNat(SubSeq(txt, w + 2, w + 3)),
                        DigitsNat(SubSeq(txt, w + 5, w + 6))),
     ms |-> DigitsNat(SubSeq(txt, w + 8, w + 9)) * 3600000
            + DigitsNat(SubSeq(txt, w + 11, w + 12)) * 60000
            + DigitsNat(SubSeq(txt, w + 14, w + 15)) * 1000
            + DigitsNat(SubSeq(txt, w + 17, w + 19))]

\* C12: for /Date(N)/ and /Date(N+offset)/ with N inside the range of Date,
\* parseSFDate returns a canonical timestamp that denotes N milliseconds
\* from the epoch, whatever the offset.
C12_EpochRoundTrip ==
    \A c \in EpochCases, o \in Offsets :
        (call.fn = "parseSFDate" /\ call.value = Str(Wrapped(c.n, o)) /\ result.returned) =>
            /\ result.ok
            /\ result.val.t = "string"
            /\ IsCanonical(result.val.s, YearWidth(result.val.s))
            /\ EpochAt(result.val.s, YearWidth(result.val.s)) = [days |-> c.days, ms |-> c.ms]

\* a negative N that is no whole day, with an offset, was parsed
C12_Witness ==
    /\ call.fn = "parseSFDate"
    /\ call.value = Str(Wrapped(IntText(0 - 86400001), <<"+", "0", "5", "3", "0">>))
    /\ result.returned
    /\ result.ok

\* String(value) of a text or a natural number
StringForm(value) == IF value.t = "number" THEN NatText(value.n) ELSE value.s

\* the text with every single quote written twice
Doubled(txt) ==
    Concat([i \in 1..Len(txt) |-> IF txt[i] = "'" THEN <<"'", "'">> ELSE <<txt[i]>>])

\* C13: for a column outside the date columns, formatSqlValue returns the
\* bare NULL exactly when the value is null or undefined; otherwise it
\* returns the string form of the value with every single quote doubled,
\* between single quotes.
C13_QuotedLiteral ==
    (call.fn = "formatSqlValue" /\ call.columnName \notin dateColumns /\ result.returned) =>
        /\ result.ok
        /\ (result.val = NullLiteral) <=> (call.value.t \in {"null", "undefined"})
        /\ call.value.t \notin {"null", "undefined"} =>
              result.val = <<"'">> \o Doubled(StringForm(call.value)) \o <<"'">>

\* the text of two quotes was formatted for the code column
C13_Witness ==
    /\ call.fn = "formatSqlValue"
    /\ call.columnName = "code"
    /\ call.value = Str(<<"'", "'">>)
    /\ result.returned
    /\ result.val = <<"'", "'", "'", "'", "'", "'">>

\* C14: transformRecord returns a record whose keys are exactly the values of
\* fieldMapping, whatever keys the input has; the value of a mapped field
\* that is present (null included) is copied unchanged, an absent one
\* becomes null, and no other key of the input appears.
C14_TransformShape ==
    (call.fn = "transformRecord" /\ result.returned) =>
        /\ result.ok
        /\ DOMAIN result.val = {fieldMapping[k][2] : k \in 1..Len(fieldMapping)}
        /\ \A k \in 1..Len(fieldMapping) :
              result.val[fieldMapping[k][2]] =
                  IF fieldMapping[k][1] \in DOMAIN call.record
                  THEN call.record[fieldMapping[k][1]]
                  ELSE Null
        /\ \A key \in DOMAIN call.record :
              (\A k \in 1..Len(fieldMapping) : fieldMapping[k][1] # key) =>
                  key \notin DOMAIN result.val

\* a record with an empty text, a zero, a null and absent fields
C14_Witness ==
    /\ call.fn = "transformRecord"
    /\ call.record = SqlBlank
    /\ result.returned
    /\ result.val["code"] = Str(<<>>)
    /\ result.val["job_title"] = Null

\* the department of a record as text, empty when absent or null
DepartmentText(record) ==
    IF "department" \in DOMAIN record /\ record["department"].t = "string"
    THEN record["department"].s
    ELSE <<>>

\* the text begins with the prefix, character by character
BeginsWith(txt, prefix) ==
    /\ Len(prefix) <= Len(txt)
    /\ \A k \in 1..Len(prefix) : txt[k] = prefix[k]

\* the places of the list whose record is to be retained
Kept(positions, prefix) ==
    {i \in 1..Len(positions) : BeginsWith(DepartmentText(positions[i]), prefix)}

\* the sequence lists the elements of positions at the places in keep, in
\* their order
IsSubsequenceAt(kept, positions, keep) ==
    /\ Len(kept) = Cardinality(keep)
    /\ \A j \in 1..Len(kept) :
          \E i \in keep :
              /\ Cardinality({h \in keep : h <= i}) = j
              /\ kept[j] = positions[i]

\* C15: filterByDepartment retains exactly the records whose department,
\* taken as empty when absent, starts with the prefix (case-sensitive), in
\* their order; with the empty prefix every record is retained.
C15_FilterByPrefix ==
    (call.fn = "filterByDepartment" /\ result.returned) =>
        /\ result.ok
        /\ IsSubsequenceAt(result.val, call.positions, Kept(call.positions, call.prefix))
        /\ call.prefix = <<>> => result.val = call.positions

\* of a record in lower case and one in upper case the second is retained
C15_Witness ==
    /\ call.fn = "filterByDepartment"
    /\ call.positions = <<DepLower, PosEng>>
    /\ call.prefix = <<"E">>
    /\ result.returned
    /\ result.val = <<PosEng>>

\* with the empty prefix records without a department are retained
C15_WitnessEmptyPrefix ==
    /\ call.fn = "filterByDepartment"
    /\ call.positions = <<SqlA1, DepNull>>
    /\ call.prefix = <<>>
    /\ result.returned
    /\ result.val = <<SqlA1, DepNull>>

\* the literal a statement inserts into the code column
CodeValue(statement) == statement.values[ColumnIndex(statement.columns, "code")]

\* C22: in every merge-style statement the literal of the match key equals
\* the literal inserted into the code column, whatever the code of the
\* record: null, absent, or with single quotes.
C22_KeyIsInsertedCode ==
    \A i \in 1..Len(oracleSql) : oracleSql[i].source = CodeValue(oracleSql[i])

\* the part of C22 that holds: the two literals are equal for every record
\* whose code is neither null nor absent, quotes included
C22_KeyIsInsertedCodeIfPresent ==
    \A i \in 1..Len(oracleSql) :
        ("code" \in DOMAIN sqlInput[i] /\ sqlInput[i]["code"].t \notin {"null", "undefined"}) =>
            oracleSql[i].source = CodeValue(oracleSql[i])

\* bodies of a successful response that lack the results envelope: one that
\* carries nothing and one that carries a record elsewhere
BodiesWithoutEnvelope == {[envelope |-> FALSE, results |-> r] : r \in {<<>>, <<PosEng>>}}

\* the invocation completed successfully with what it had accumulated before
\* this step
CompletesWithAccumulated(s) ==
    /\ pc'[s] = "done"
    /\ response'[s].status = 200
    /\ response'[s].success
    /\ response'[s].totalFetched = totalFetched[s]
    /\ response'[s].totalFiltered = totalFiltered[s]
    /\ response'[s].sqlStatementsGenerated = Len(allFilteredPositions[s])
    /\ allFilteredPositions'[s] = allFilteredPositions[s]
    /\ Cardinality(written'[s]) = 2
    /\ \A f \in written'[s] :
           Len(files'[f].statements) = Len(allFilteredPositions[s])

\* the step is the receipt of a page with the records fetchPositions returns
\* for this body (ResponseOk is the one action that records a page)
ReceivedAs(s, body) ==
    /\ pc[s] = "request"
    /\ pageCounts'[s] = Append(pageCounts[s], Len(Results(body)))

\* C23: a successful response whose body lacks the results envelope is a page
\* of zero records: the step is not a retry and records no error, it ends the
\* pagination (no further request), and the sync completes successfully with
\* the records accumulated so far.
C23_NoEnvelopeIsEmptyPage ==
    [][\A s \in Runs, body \in BodiesWithoutEnvelope :
           ReceivedAs(s, body) =>
               /\ pageCounts'[s] = Append(pageCounts[s], 0)
               /\ failures' = failures
               /\ lastError' = lastError
               /\ waits' = waits
               /\ attempt' = attempt
               /\ requests' = requests
               /\ calls' = calls
               /\ CompletesWithAccumulated(s)]_vars

\* a sync that completed on a page of zero records received as its third
\* page, after two full pages of retained records
C23_Witness ==
    \E s \in Runs :
        /\ pc[s] = "done"
        /\ Len(pageCounts[s]) = 3
        /\ pageCounts[s][3] = 0
        /\ totalFiltered[s] = 2 * pageSize
        /\ failures[s] = 0
        /\ response[s].sqlStatementsGenerated = 2 * pageSize

\* the invocation is inside syncPositions: a request is outstanding or the
\* retry loop sleeps
Running(s) == pc[s] \in {"request", "sleep"}

\* DONE with both files written
DoneWithBoth(s) ==
    /\ pc[s] = "done"
    /\ response[s].success
    /\ written[s] = {response[s].oracleFile, response[s].postgresFile}
    /\ Cardinality(written[s]) = 2
    /\ written[s] \subseteq DOMAIN files

\* FAILED with no file written
FailedWithNone(s) ==
    /\ pc[s] = "failed"
    /\ ~response[s].success
    /\ written[s] = {}
    /\ \A f \in DOMAIN files : files[f].writer # s

\* a full page is followed by the request for the next page
FullPageContinues(s) ==
    (/\ pc[s] = "request"
     /\ Len(pageCounts'[s]) = Len(pageCounts[s]) + 1
     /\ pageCounts'[s][Len(pageCounts'[s])] >= pageSize) =>
        /\ pc'[s] = "request"
        /\ calls'[s] = calls[s] + 1
        /\ page'[s] = page[s] + 1

\* an ended invocation is DONE with both files or FAILED with none
EndsWhole(s) == pc[s] \in {"done", "failed"} => DoneWithBoth(s) \/ FailedWithNone(s)

\* C21: when every request completes and a short page eventually comes
\* back, every started sync eventually ends, DONE with both files written
\* or FAILED with none; and while pages come back full the sync does not
\* stop: each full page is followed by the request for the next one.
C21_SyncTerminates ==
    /\ \A s \in Runs : Running(s) ~> (DoneWithBoth(s) \/ FailedWithNone(s))
    /\ [](\A s \in Runs : EndsWhole(s))
    /\ [][\A s \in Runs : FullPageContinues(s)]_vars

\* a sync that ended DONE after a full page, a retried request and a short
\* page
C21_Witness ==
    \E s \in Runs :
        /\ DoneWithBoth(s)
        /\ Len(pageCounts[s]) = 2
        /\ pageCounts[s][1] = pageSize
        /\ pageCounts[s][2] < pageSize
        /\ failures[s] >= 1

====
